---- MODULE Spec2Model ----
(***************************************************************************)
(* ec2_vpc_net: reconciliation of one VPC against a desired specification. *)
(* The provider (the boto VPC connection) is the state; one invocation of  *)
(* main() is one step.  Python's None is the empty sequence, a value that  *)
(* is present is a one-element sequence; a dict is a function from keys.   *)
(***************************************************************************)
EXTENDS Integers, Sequences, FiniteSets, TLC

MaxVpcs == 3

MaxAttrVpcs == 2

None == <<>>
Some(x) == <<x>>
IsNone(o) == Len(o) = 0
The(o) == o[1]

NoDhcp == "None"
DefaultDhcp == "dopt-default"

Names == {"n1"}
Cidrs == {"c1", "c2"}
DhcpIds == {NoDhcp, DefaultDhcp, "dopt-1"}
TagDicts == {None, Some("env" :> "x"), Some("Name" :> "nx")}

VARIABLES provider, nextId, last

vars == <<provider, nextId, last>>

(* ---------------- the provider, as the boto connection shows it -------- *)

dict_update(d, other) == other @@ d

VpcObject(prov, id) ==
    [id |-> id,
     cidr_block |-> prov[id].cidr_block,
     tags |-> prov[id].tags,
     dhcp_options_id |-> prov[id].dhcp_options_id,
     instance_tenancy |-> prov[id].instance_tenancy,
     region |-> "RegionInfo",
     connection |-> "VPCConnection"]

(* get_all_vpcs with the cidr-block filter left out *)
get_all_vpcs_name_only(prov, name, cidr_block) ==
    {i \in DOMAIN prov :
        /\ "Name" \in DOMAIN prov[i].tags
        /\ prov[i].tags["Name"] = name}

get_all_vpcs(prov, name, cidr_block) ==
    {i \in DOMAIN prov :
        /\ "Name" \in DOMAIN prov[i].tags
        /\ prov[i].tags["Name"] = name
        /\ prov[i].cidr_block = cidr_block}

(* a new VPC has no tags, the default DHCP options set, DNS support on and
   DNS hostnames off *)
create_vpc(prov, id, cidr_block, tenancy) ==
    (id :> [cidr_block |-> cidr_block,
            tags |-> <<>>,
            dhcp_options_id |-> DefaultDhcp,
            instance_tenancy |-> tenancy,
            dns_support |-> TRUE,
            dns_hostnames |-> FALSE]) @@ prov

get_all_tags(prov, id) == prov[id].tags

(* EC2 CreateTags adds or overwrites the given keys and removes none *)
create_tags(prov, id, tags) ==
    [prov EXCEPT ![id].tags = dict_update(@, tags)]

associate_dhcp_options(prov, dhcp_id, id) ==
    [prov EXCEPT ![id].dhcp_options_id = dhcp_id]

modify_dns_support(prov, id, v) == [prov EXCEPT ![id].dns_support = v]

modify_dns_hostnames(prov, id, v) == [prov EXCEPT ![id].dns_hostnames = v]

delete_vpc(prov, id) == [i \in DOMAIN prov \ {id} |-> prov[i]]

(* ---------------- the module's run: context, exits, remote calls ------- *)

Start(prov, next, p) ==
    [prov |-> prov, next |-> next, p |-> p, calls |-> <<>>,
     status |-> "running", msg |-> "", changed |-> FALSE,
     vpc_obj |-> None, vpc |-> None, ret |-> FALSE]

Running(c) == c.status = "running"

fail_json(c, msg) == [c EXCEPT !.status = "fail_json", !.msg = msg]

exit_json(c, changed, vpc) ==
    [c EXCEPT !.status = "exit_json", !.changed = changed, !.vpc = vpc]

Issue(c, call, id, arg) ==
    [c EXCEPT !.calls = Append(@, [call |-> call, id |-> id, arg |-> arg])]

Raises(c) == Len(c.calls) + 1 = c.p.fail_at

(* ---------------- vpc_exists, update_vpc_tags, update_dhcp_opts -------- *)

(* vpc_exists binding to the first of several matches instead of failing *)
vpc_exists_first_match(c, name, cidr_block, multi) ==
    LET c1 == Issue(c, "get_all_vpcs", 0, <<name, cidr_block>>)
        matching_vpcs == get_all_vpcs(c.prov, name, cidr_block)
    IN  IF Raises(c) THEN fail_json(c1, "boto")
        ELSE IF multi THEN [c1 EXCEPT !.vpc_obj = None]
        ELSE IF Cardinality(matching_vpcs) >= 1
             THEN [c1 EXCEPT !.vpc_obj =
                      Some(VpcObject(c.prov, CHOOSE i \in matching_vpcs :
                                                 \A j \in matching_vpcs : i <= j))]
        ELSE [c1 EXCEPT !.vpc_obj = None]

(* vpc_exists testing the number of matches before multi *)
vpc_exists_multi_last(c, name, cidr_block, multi) ==
    LET c1 == Issue(c, "get_all_vpcs", 0, <<name, cidr_block>>)
        matching_vpcs == get_all_vpcs(c.prov, name, cidr_block)
    IN  IF Raises(c) THEN fail_json(c1, "boto")
        ELSE IF Cardinality(matching_vpcs) = 1
             THEN [c1 EXCEPT !.vpc_obj =
                      Some(VpcObject(c.prov, CHOOSE i \in matching_vpcs : TRUE))]
        ELSE IF multi THEN [c1 EXCEPT !.vpc_obj = None]
        ELSE IF Cardinality(matching_vpcs) > 1 THEN fail_json(c1, "ambiguous")
        ELSE [c1 EXCEPT !.vpc_obj = None]

(* vpc_exists never looking at multi *)
vpc_exists_multi_ignored(c, name, cidr_block, multi) ==
    LET c1 == Issue(c, "get_all_vpcs", 0, <<name, cidr_block>>)
        matching_vpcs == get_all_vpcs(c.prov, name, cidr_block)
    IN  IF Raises(c) THEN fail_json(c1, "boto")
        ELSE IF Cardinality(matching_vpcs) = 1
             THEN [c1 EXCEPT !.vpc_obj =
                      Some(VpcObject(c.prov, CHOOSE i \in matching_vpcs : TRUE))]
        ELSE IF Cardinality(matching_vpcs) > 1 THEN fail_json(c1, "ambiguous")
        ELSE [c1 EXCEPT !.vpc_obj = None]

vpc_exists(c, name, cidr_block, multi) ==
    LET c1 == Issue(c, "get_all_vpcs", 0, <<name, cidr_block>>)
        matching_vpcs == get_all_vpcs(c.prov, name, cidr_block)
    IN  IF Raises(c) THEN fail_json(c1, "boto")
        ELSE IF multi THEN [c1 EXCEPT !.vpc_obj = None]
        ELSE IF Cardinality(matching_vpcs) = 1
             THEN [c1 EXCEPT !.vpc_obj =
                      Some(VpcObject(c.prov, CHOOSE i \in matching_vpcs : TRUE))]
        ELSE IF Cardinality(matching_vpcs) > 1 THEN fail_json(c1, "ambiguous")
        ELSE [c1 EXCEPT !.vpc_obj = None]

(* update_vpc_tags writing the tags in check mode too *)
update_vpc_tags_unguarded(c, vpc_obj, tags, name) ==
    LET tags1 == IF IsNone(tags) THEN <<>> ELSE The(tags)
        tags2 == dict_update(tags1, "Name" :> name)
        c1 == Issue(c, "get_all_tags", vpc_obj.id, <<>>)
        current_tags == get_all_tags(c.prov, vpc_obj.id)
        c2 == Issue(c1, "create_tags", vpc_obj.id, <<tags2>>)
    IN  IF Raises(c) THEN fail_json(c1, "boto")
        ELSE IF tags2 # current_tags
             THEN IF Raises(c1) THEN fail_json(c2, "boto")
                  ELSE [c2 EXCEPT !.prov = create_tags(@, vpc_obj.id, tags2),
                                  !.ret = TRUE]
        ELSE [c1 EXCEPT !.ret = FALSE]

(* update_vpc_tags letting a Name key of tags override the name *)
update_vpc_tags_tags_win(c, vpc_obj, tags, name) ==
    LET tags1 == IF IsNone(tags) THEN <<>> ELSE The(tags)
        tags2 == dict_update("Name" :> name, tags1)
        c1 == Issue(c, "get_all_tags", vpc_obj.id, <<>>)
        current_tags == get_all_tags(c.prov, vpc_obj.id)
        c2 == Issue(c1, "create_tags", vpc_obj.id, <<tags2>>)
    IN  IF Raises(c) THEN fail_json(c1, "boto")
        ELSE IF tags2 # current_tags
             THEN IF ~c.p.check_mode
                  THEN IF Raises(c1) THEN fail_json(c2, "boto")
                       ELSE [c2 EXCEPT !.prov = create_tags(@, vpc_obj.id, tags2),
                                       !.ret = TRUE]
                  ELSE [c1 EXCEPT !.ret = TRUE]
        ELSE [c1 EXCEPT !.ret = FALSE]

update_vpc_tags(c, vpc_obj, tags, name) ==
    LET tags1 == IF IsNone(tags) THEN <<>> ELSE The(tags)
        tags2 == dict_update(tags1, "Name" :> name)
        c1 == Issue(c, "get_all_tags", vpc_obj.id, <<>>)
        current_tags == get_all_tags(c.prov, vpc_obj.id)
        c2 == Issue(c1, "create_tags", vpc_obj.id, <<tags2>>)
    IN  IF Raises(c) THEN fail_json(c1, "boto")
        ELSE IF tags2 # current_tags
             THEN IF ~c.p.check_mode
                  THEN IF Raises(c1) THEN fail_json(c2, "boto")
                       ELSE [c2 EXCEPT !.prov = create_tags(@, vpc_obj.id, tags2),
                                       !.ret = TRUE]
                  ELSE [c1 EXCEPT !.ret = TRUE]
        ELSE [c1 EXCEPT !.ret = FALSE]

(* update_dhcp_opts associating without comparing with the current id *)
update_dhcp_opts_undiffed(c, vpc_obj, dhcp_id) ==
    LET c1 == Issue(c, "associate_dhcp_options", vpc_obj.id, <<dhcp_id>>)
    IN  IF ~c.p.check_mode
        THEN IF Raises(c) THEN fail_json(c1, "boto")
             ELSE [c1 EXCEPT !.prov = associate_dhcp_options(@, dhcp_id, vpc_obj.id),
                             !.ret = TRUE]
        ELSE [c EXCEPT !.ret = TRUE]

(* update_dhcp_opts comparing only behind the check-mode gate *)
update_dhcp_opts_gate_first(c, vpc_obj, dhcp_id) ==
    LET c1 == Issue(c, "associate_dhcp_options", vpc_obj.id, <<dhcp_id>>)
    IN  IF ~c.p.check_mode
        THEN IF vpc_obj.dhcp_options_id # dhcp_id
             THEN IF Raises(c) THEN fail_json(c1, "boto")
                  ELSE [c1 EXCEPT !.prov = associate_dhcp_options(@, dhcp_id, vpc_obj.id),
                                  !.ret = TRUE]
             ELSE [c EXCEPT !.ret = FALSE]
        ELSE [c EXCEPT !.ret = FALSE]

(* update_dhcp_opts going on after associate_dhcp_options raised *)
update_dhcp_opts_swallowing(c, vpc_obj, dhcp_id) ==
    LET c1 == Issue(c, "associate_dhcp_options", vpc_obj.id, <<dhcp_id>>)
    IN  IF vpc_obj.dhcp_options_id # dhcp_id
        THEN IF ~c.p.check_mode
             THEN IF Raises(c) THEN [c1 EXCEPT !.ret = FALSE]
                  ELSE [c1 EXCEPT !.prov = associate_dhcp_options(@, dhcp_id, vpc_obj.id),
                                  !.ret = TRUE]
             ELSE [c EXCEPT !.ret = TRUE]
        ELSE [c EXCEPT !.ret = FALSE]

update_dhcp_opts(c, vpc_obj, dhcp_id) ==
    LET c1 == Issue(c, "associate_dhcp_options", vpc_obj.id, <<dhcp_id>>)
    IN  IF vpc_obj.dhcp_options_id # dhcp_id
        THEN IF ~c.p.check_mode
             THEN IF Raises(c) THEN fail_json(c1, "boto")
                  ELSE [c1 EXCEPT !.prov = associate_dhcp_options(@, dhcp_id, vpc_obj.id),
                                  !.ret = TRUE]
             ELSE [c EXCEPT !.ret = TRUE]
        ELSE [c EXCEPT !.ret = FALSE]

get_vpc_values(vpc_obj) ==
    IF ~IsNone(vpc_obj)
    THEN LET vpc_values == The(vpc_obj)
             kept == DOMAIN vpc_values \ {"region", "item", "connection"}
         IN  Some([k \in kept |-> vpc_values[k]])
    ELSE None

(* ---------------- main(): state == 'present' --------------------------- *)

(* main without the dns_hostnames/dns_support test *)
main_validate_skipped(c) == c

main_validate(c) ==
    IF c.p.dns_hostnames /\ ~c.p.dns_support THEN fail_json(c, "dns") ELSE c

(* main counting a tenancy other than the desired one as a change *)
main_create_tenancy_diffed(c) ==
    LET c1 == Issue(c, "create_vpc", 0, <<c.p.cidr_block, c.p.tenancy>>)
        prov1 == create_vpc(c.prov, c.next, c.p.cidr_block, c.p.tenancy)
    IN  IF ~Running(c) THEN c
        ELSE IF IsNone(c.vpc_obj)
        THEN IF ~c.p.check_mode
             THEN IF Raises(c) THEN fail_json(c1, "boto")
                  ELSE [c1 EXCEPT !.changed = TRUE, !.prov = prov1, !.next = @ + 1,
                                  !.vpc_obj = Some(VpcObject(prov1, c.next))]
             ELSE exit_json(c, TRUE, None)
        ELSE IF The(c.vpc_obj).instance_tenancy # c.p.tenancy
        THEN [c EXCEPT !.changed = TRUE]
        ELSE c

main_create(c) ==
    LET c1 == Issue(c, "create_vpc", 0, <<c.p.cidr_block, c.p.tenancy>>)
        prov1 == create_vpc(c.prov, c.next, c.p.cidr_block, c.p.tenancy)
    IN  IF ~Running(c) THEN c
        ELSE IF IsNone(c.vpc_obj)
        THEN IF ~c.p.check_mode
             THEN IF Raises(c) THEN fail_json(c1, "boto")
                  ELSE [c1 EXCEPT !.changed = TRUE, !.prov = prov1, !.next = @ + 1,
                                  !.vpc_obj = Some(VpcObject(prov1, c.next))]
             ELSE exit_json(c, TRUE, None)
        ELSE c

(* main associating the DHCP options without counting it as a change *)
main_dhcp_unflagged(c) ==
    IF ~Running(c) THEN c
    ELSE IF c.p.dhcp_id # NoDhcp
    THEN update_dhcp_opts(c, The(c.vpc_obj), c.p.dhcp_id)
    ELSE c

(* main reconciling the DHCP options also when dhcp_opts_id is not given *)
main_dhcp_unconditional(c) ==
    IF ~Running(c) THEN c
    ELSE LET r == update_dhcp_opts(c, The(c.vpc_obj), c.p.dhcp_id)
         IN  IF Running(r) /\ r.ret THEN [r EXCEPT !.changed = TRUE] ELSE r

main_dhcp(c) ==
    IF ~Running(c) THEN c
    ELSE IF c.p.dhcp_id # NoDhcp
    THEN LET r == update_dhcp_opts(c, The(c.vpc_obj), c.p.dhcp_id)
         IN  IF Running(r) /\ r.ret THEN [r EXCEPT !.changed = TRUE] ELSE r
    ELSE c

main_tags(c) ==
    IF ~Running(c) THEN c
    ELSE IF ~IsNone(c.p.tags) \/ c.p.name # "None"
    THEN LET r == update_vpc_tags(c, The(c.vpc_obj), c.p.tags, c.p.name)
         IN  IF Running(r) /\ r.ret THEN [r EXCEPT !.changed = TRUE] ELSE r
    ELSE c

(* main writing the DNS attributes only when something else changed *)
main_dns_only_when_changed(c) ==
    LET id == The(c.vpc_obj).id
        c1 == Issue(c, "modify_vpc_attribute", id, <<"enable_dns_support", c.p.dns_support>>)
        d1 == [c1 EXCEPT !.prov = modify_dns_support(@, id, c.p.dns_support)]
        c2 == Issue(d1, "modify_vpc_attribute", id, <<"enable_dns_hostnames", c.p.dns_hostnames>>)
        d2 == [c2 EXCEPT !.prov = modify_dns_hostnames(@, id, c.p.dns_hostnames)]
    IN  IF ~Running(c) THEN c
        ELSE IF ~c.p.check_mode /\ c.changed
        THEN IF Raises(c) THEN fail_json(c1, "boto")
             ELSE IF Raises(d1) THEN fail_json(c2, "boto")
             ELSE d2
        ELSE c

main_dns(c) ==
    LET id == The(c.vpc_obj).id
        c1 == Issue(c, "modify_vpc_attribute", id, <<"enable_dns_support", c.p.dns_support>>)
        d1 == [c1 EXCEPT !.prov = modify_dns_support(@, id, c.p.dns_support)]
        c2 == Issue(d1, "modify_vpc_attribute", id, <<"enable_dns_hostnames", c.p.dns_hostnames>>)
        d2 == [c2 EXCEPT !.prov = modify_dns_hostnames(@, id, c.p.dns_hostnames)]
    IN  IF ~Running(c) THEN c
        ELSE IF ~c.p.check_mode
        THEN IF Raises(c) THEN fail_json(c1, "boto")
             ELSE IF Raises(d1) THEN fail_json(c2, "boto")
             ELSE d2
        ELSE c

(* main returning the object it held before the mutations *)
main_refetch_stale(c) == c

(* main keeping the object it holds when fetching it again raises *)
main_refetch_unchecked(c) ==
    LET id == The(c.vpc_obj).id
        c1 == Issue(c, "get_all_vpcs", id, <<>>)
    IN  IF ~Running(c) THEN c
        ELSE IF ~c.p.check_mode
        THEN IF Raises(c) THEN c1
             ELSE [c1 EXCEPT !.vpc_obj = Some(VpcObject(c.prov, id))]
        ELSE c

main_refetch(c) ==
    LET id == The(c.vpc_obj).id
        c1 == Issue(c, "get_all_vpcs", id, <<>>)
    IN  IF ~Running(c) THEN c
        ELSE IF ~c.p.check_mode
        THEN IF Raises(c) THEN fail_json(c1, "boto")
             ELSE [c1 EXCEPT !.vpc_obj = Some(VpcObject(c.prov, id))]
        ELSE c

Finish(c) ==
    IF Running(c) THEN exit_json(c, c.changed, get_vpc_values(c.vpc_obj)) ELSE c

main_present(c) ==
    Finish(main_refetch(main_dns(main_tags(main_dhcp(main_create(
        vpc_exists(c, c.p.name, c.p.cidr_block, c.p.multi)))))))

(* ---------------- main(): state == 'absent' ---------------------------- *)

(* main deleting in check mode too *)
main_delete_unguarded(c) ==
    LET id == The(c.vpc_obj).id
        c1 == Issue(c, "delete_vpc", id, <<>>)
    IN  IF ~Running(c) THEN c
        ELSE IF ~IsNone(c.vpc_obj)
        THEN IF Raises(c) THEN fail_json(c1, "dependency")
             ELSE [c1 EXCEPT !.prov = delete_vpc(@, id), !.vpc_obj = None,
                             !.changed = TRUE]
        ELSE c

main_delete(c) ==
    LET id == The(c.vpc_obj).id
        c1 == Issue(c, "delete_vpc", id, <<>>)
    IN  IF ~Running(c) THEN c
        ELSE IF ~IsNone(c.vpc_obj)
        THEN IF ~c.p.check_mode
             THEN IF Raises(c) THEN fail_json(c1, "dependency")
                  ELSE [c1 EXCEPT !.prov = delete_vpc(@, id), !.vpc_obj = None,
                                  !.changed = TRUE]
             ELSE [c EXCEPT !.vpc_obj = None, !.changed = TRUE]
        ELSE c

main_absent(c) ==
    Finish(main_delete(vpc_exists(c, c.p.name, c.p.cidr_block, c.p.multi)))

Dispatch(c) ==
    IF ~Running(c) THEN c
    ELSE IF c.p.state = "present" THEN main_present(c)
    ELSE main_absent(c)

main(prov, next, p) == Dispatch(main_validate(Start(prov, next, p)))

(* ---------------- the state machine ------------------------------------ *)

PresentParams ==
    [name : Names, cidr_block : Cidrs, tenancy : {"default"},
     dns_support : BOOLEAN, dns_hostnames : {TRUE},
     dhcp_id : DhcpIds, tags : TagDicts,
     state : {"present"}, multi : BOOLEAN, check_mode : BOOLEAN,
     fail_at : {0}]

AbsentParams ==
    [name : Names, cidr_block : Cidrs, tenancy : {"default"},
     dns_support : BOOLEAN, dns_hostnames : {TRUE},
     dhcp_id : {NoDhcp}, tags : {None},
     state : {"absent"}, multi : BOOLEAN, check_mode : BOOLEAN,
     fail_at : {0}]

Init ==
    /\ provider = <<>>
    /\ nextId = 1
    /\ last = None

Outcome(r, pre) ==
    Some([p |-> r.p, pre |-> pre, status |-> r.status, msg |-> r.msg,
          changed |-> r.status = "exit_json" /\ r.changed,
          vpc |-> IF r.status = "exit_json" THEN r.vpc ELSE None,
          calls |-> r.calls])

CommitWithin(r, cap) ==
    /\ r.next <= cap + 1
    /\ provider' = r.prov
    /\ nextId' = r.next
    /\ last' = Outcome(r, provider)

Commit(r) == CommitWithin(r, MaxVpcs)

Run(p) ==
    /\ IsNone(last)
    /\ Commit(main(provider, nextId, p))

RunWithin(p, cap) ==
    /\ IsNone(last)
    /\ CommitWithin(main(provider, nextId, p), cap)

EnsurePresent == \E p \in PresentParams : Run(p)

EnsureAbsent == \E p \in AbsentParams : Run(p)

Exit ==
    /\ ~IsNone(last)
    /\ last' = None
    /\ UNCHANGED <<provider, nextId>>

Next == EnsurePresent \/ EnsureAbsent \/ Exit

Spec == Init /\ [][Next]_vars

(* ---------------- runs that vary tenancy and the DNS attributes -------- *)

Tenancies == {"default", "dedicated"}

AttrPresentParams ==
    [name : Names, cidr_block : {"c1"}, tenancy : Tenancies,
     dns_support : BOOLEAN, dns_hostnames : BOOLEAN,
     dhcp_id : {NoDhcp, "dopt-1"}, tags : {None},
     state : {"present"}, multi : BOOLEAN, check_mode : BOOLEAN,
     fail_at : {0}]

AttrAbsentParams ==
    [name : Names, cidr_block : {"c1"}, tenancy : {"default"},
     dns_support : {TRUE}, dns_hostnames : {TRUE},
     dhcp_id : {NoDhcp}, tags : {None},
     state : {"absent"}, multi : {FALSE}, check_mode : BOOLEAN,
     fail_at : {0}]

AttrPresent == \E p \in AttrPresentParams : RunWithin(p, MaxAttrVpcs)

AttrAbsent == \E p \in AttrAbsentParams : RunWithin(p, MaxAttrVpcs)

NextAttr == AttrPresent \/ AttrAbsent \/ Exit

SpecAttr == Init /\ [][NextAttr]_vars

(* ---------------- runs in which a remote call may raise ---------------- *)

FailPoints == 0..8

FailPresentParams ==
    [name : Names, cidr_block : {"c1"}, tenancy : {"default"},
     dns_support : {TRUE}, dns_hostnames : {TRUE},
     dhcp_id : {NoDhcp, "dopt-1"}, tags : {None, Some("env" :> "x")},
     state : {"present"}, multi : BOOLEAN, check_mode : BOOLEAN,
     fail_at : FailPoints]

FailAbsentParams ==
    [name : Names, cidr_block : {"c1"}, tenancy : {"default"},
     dns_support : {TRUE}, dns_hostnames : {TRUE},
     dhcp_id : {NoDhcp}, tags : {None},
     state : {"absent"}, multi : {FALSE}, check_mode : BOOLEAN,
     fail_at : 0..2]

FailPresent == \E p \in FailPresentParams : RunWithin(p, MaxAttrVpcs)

FailAbsent == \E p \in FailAbsentParams : RunWithin(p, MaxAttrVpcs)

NextFail == FailPresent \/ FailAbsent \/ Exit

SpecFail == Init /\ [][NextFail]_vars

(* ---------------- one desired state, run again and again ---------------- *)

RetryParams ==
    [name : Names, cidr_block : {"c1"}, tenancy : {"default"},
     dns_support : {TRUE}, dns_hostnames : {TRUE},
     dhcp_id : {NoDhcp, "dopt-1"}, tags : {None, Some("env" :> "x")},
     state : {"present"}, multi : {FALSE}, check_mode : {FALSE},
     fail_at : FailPoints]

First ==
    /\ IsNone(last)
    /\ \E p \in RetryParams : CommitWithin(main(provider, nextId, p), MaxAttrVpcs)

Retry ==
    /\ ~IsNone(last)
    /\ \E f \in FailPoints :
           CommitWithin(main(provider, nextId, [The(last).p EXCEPT !.fail_at = f]),
                        MaxAttrVpcs)

NextRetry == First \/ Retry

SpecRetry == Init /\ [][NextRetry]_vars

(* ---------------- vocabulary of the properties -------------------------- *)

Ran == ~IsNone(last)

L == The(last)

Valid(p) == p.dns_hostnames => p.dns_support

Mutating == {"create_vpc", "delete_vpc", "associate_dhcp_options", "create_tags",
             "modify_vpc_attribute"}

Count(calls, call) == Cardinality({i \in 1..Len(calls) : calls[i].call = call})

NoMutatingCall(calls) == \A i \in 1..Len(calls) : calls[i].call \notin Mutating

Matching(prov, p) ==
    {i \in DOMAIN prov :
        /\ "Name" \in DOMAIN prov[i].tags
        /\ prov[i].tags["Name"] = p.name
        /\ prov[i].cidr_block = p.cidr_block}

effectiveTags(p) ==
    LET t == IF IsNone(p.tags) THEN <<>> ELSE The(p.tags)
    IN  [k \in DOMAIN t \cup {"Name"} |-> IF k = "Name" THEN p.name ELSE t[k]]

Contains(tags, wanted) ==
    \A k \in DOMAIN wanted : k \in DOMAIN tags /\ tags[k] = wanted[k]

PresentOk == Ran /\ L.p.state = "present" /\ L.status = "exit_json"

AbsentOk == Ran /\ L.p.state = "absent" /\ L.status = "exit_json"

Again == main(provider, nextId, L.p)

ForReal == main(provider, nextId, [L.p EXCEPT !.check_mode = FALSE])

(* C1 as stated: after a successful non-dry-run ensurePresent, a second run
   with the identical desired state, from the provider state the first one
   left, returns changed = false (for every allow_duplicates, tags, dhcp). *)
C1_Idempotent ==
    (PresentOk /\ ~L.p.check_mode) =>
        (Again.status = "exit_json" /\ ~Again.changed)

(* C1 amended: with allow_duplicates = false the second run completes, issues
   no create and no DHCP association, and returns changed = true exactly when
   the tags of the bound resource differ from the effective tags (create_tags
   adds and overwrites, it never removes a tag the desired state lacks). *)
C1_IdempotentUnlessDuplicatesOrExtraTags ==
    (PresentOk /\ ~L.p.check_mode /\ ~L.p.multi) =>
        /\ Again.status = "exit_json"
        /\ Count(Again.calls, "create_vpc") = 0
        /\ Count(Again.calls, "associate_dhcp_options") = 0
        /\ Again.prov = provider
        /\ Again.changed <=> (provider[The(L.vpc).id].tags # effectiveTags(L.p))

C1_Witness ==
    /\ PresentOk /\ ~L.p.check_mode /\ ~L.p.multi
    /\ L.changed
    /\ Count(L.calls, "associate_dhcp_options") = 1
    /\ Count(L.calls, "create_tags") = 1
    /\ ~Again.changed

(* C2: a dry-run invocation (present or absent, found or not) issues no
   mutating call and leaves the provider state as it found it. *)
C2_DryRunNoMutation ==
    (Ran /\ L.p.check_mode) => (NoMutatingCall(L.calls) /\ provider = L.pre)

C2_Witness ==
    /\ PresentOk /\ L.p.check_mode /\ ~L.p.multi
    /\ Cardinality(Matching(L.pre, L.p)) = 1
    /\ L.changed
    /\ L.p.dhcp_id # NoDhcp
    /\ The(L.vpc).dhcp_options_id # L.p.dhcp_id
    /\ The(L.vpc).tags # effectiveTags(L.p)

(* C3: the changed value a dry-run ensurePresent returns equals the one the
   real run returns from the same provider state. *)
C3_DryRunFidelity ==
    (PresentOk /\ L.p.check_mode) =>
        (ForReal.status = "exit_json" => ForReal.changed = L.changed)

C3_Witness ==
    /\ PresentOk /\ L.p.check_mode /\ ~L.p.multi
    /\ Cardinality(Matching(L.pre, L.p)) = 1
    /\ L.p.dhcp_id # NoDhcp
    /\ The(L.vpc).dhcp_options_id # L.p.dhcp_id
    /\ The(L.vpc).tags = effectiveTags(L.p)
    /\ L.changed
    /\ ForReal.status = "exit_json" /\ ForReal.changed

(* C4: two or more matches with allow_duplicates = false end the invocation
   (present or absent, dry-run or not, desired state valid) in the ambiguity
   failure, with no mutating call and the provider state unchanged. *)
C4_AmbiguityHardStop ==
    (Ran /\ Valid(L.p) /\ ~L.p.multi /\ Cardinality(Matching(L.pre, L.p)) >= 2) =>
        /\ L.status = "fail_json" /\ L.msg = "ambiguous"
        /\ NoMutatingCall(L.calls)
        /\ provider = L.pre

C4_Witness ==
    /\ Ran /\ Valid(L.p) /\ ~L.p.multi /\ ~L.p.check_mode
    /\ L.p.state = "absent"
    /\ Cardinality(Matching(L.pre, L.p)) >= 2
    /\ L.msg = "ambiguous"

(* C5: with allow_duplicates = true a non-dry-run ensurePresent calls create
   exactly once and returns changed = true whatever the number of matches;
   every resource that existed is left as it was and one resource is added. *)
C5_DuplicatesAlwaysCreate ==
    (Ran /\ L.p.state = "present" /\ Valid(L.p) /\ L.p.multi /\ ~L.p.check_mode) =>
        /\ L.status = "exit_json" /\ L.changed
        /\ Count(L.calls, "create_vpc") = 1
        /\ \A i \in DOMAIN L.pre : i \in DOMAIN provider /\ provider[i] = L.pre[i]
        /\ The(L.vpc).id \notin DOMAIN L.pre
        /\ Cardinality(DOMAIN provider) = Cardinality(DOMAIN L.pre) + 1

C5_Witness ==
    /\ PresentOk /\ L.p.multi /\ ~L.p.check_mode
    /\ Cardinality(Matching(L.pre, L.p)) = 2
    /\ Cardinality(Matching(provider, L.p)) = 3

(* C6: a successful non-dry-run ensurePresent returns the provider's record of
   the resource as it is after all mutations, with the desired cidr_block, tags
   containing the effective tags, the desired dhcp_options_id when one is set,
   and changed = true when no match existed beforehand. *)
C6_PresentPostcondition ==
    (PresentOk /\ ~L.p.check_mode) =>
        /\ ~IsNone(L.vpc)
        /\ LET v == The(L.vpc)
           IN  /\ v.id \in DOMAIN provider
               /\ DOMAIN v = {"id", "cidr_block", "tags", "dhcp_options_id",
                              "instance_tenancy"}
               /\ v.cidr_block = provider[v.id].cidr_block
               /\ v.tags = provider[v.id].tags
               /\ v.dhcp_options_id = provider[v.id].dhcp_options_id
               /\ v.instance_tenancy = provider[v.id].instance_tenancy
               /\ v.cidr_block = L.p.cidr_block
               /\ Contains(v.tags, effectiveTags(L.p))
               /\ L.p.dhcp_id # NoDhcp => v.dhcp_options_id = L.p.dhcp_id
        /\ Matching(L.pre, L.p) = {} => L.changed

C6_Witness ==
    /\ PresentOk /\ ~L.p.check_mode /\ ~L.p.multi
    /\ Matching(L.pre, L.p) = {}
    /\ DOMAIN L.pre # {}
    /\ L.p.dhcp_id \notin {NoDhcp, DefaultDhcp}
    /\ ~IsNone(L.p.tags)
    /\ The(L.vpc).tags = effectiveTags(L.p)
    /\ L.changed

(* C7: the tag mapping ensurePresent compares with the current tags and passes
   to create_tags is desired.tags with "Name" bound to desired.name; a "Name"
   given inside tags is never written. *)
C7_NamePrecedence ==
    (PresentOk /\ ~L.p.check_mode) =>
        LET id == The(L.vpc).id
            current == IF id \in DOMAIN L.pre THEN L.pre[id].tags ELSE <<>>
        IN  /\ Count(L.calls, "create_tags") = (IF current # effectiveTags(L.p) THEN 1 ELSE 0)
            /\ \A i \in 1..Len(L.calls) :
                   L.calls[i].call = "create_tags" =>
                       /\ L.calls[i].id = id
                       /\ L.calls[i].arg[1] = effectiveTags(L.p)
            /\ provider[id].tags["Name"] = L.p.name

C7_Witness ==
    /\ PresentOk /\ ~L.p.check_mode
    /\ ~IsNone(L.p.tags)
    /\ "Name" \in DOMAIN The(L.p.tags)
    /\ The(L.p.tags)["Name"] # L.p.name
    /\ Count(L.calls, "create_tags") = 1
    /\ The(L.vpc).tags["Name"] = L.p.name

(* C8: dns_hostnames = true with dns_support = false ends the invocation in
   the validation failure with no call to the provider at all. *)
C8_ValidationBeforeCalls ==
    (Ran /\ L.p.dns_hostnames /\ ~L.p.dns_support) =>
        /\ L.status = "fail_json" /\ L.msg = "dns"
        /\ Len(L.calls) = 0
        /\ provider = L.pre

C8_Witness ==
    /\ Ran /\ L.p.dns_hostnames /\ ~L.p.dns_support
    /\ L.p.state = "absent" /\ ~L.p.check_mode /\ ~L.p.multi
    /\ Cardinality(Matching(L.pre, L.p)) = 1
    /\ L.msg = "dns"

(* C9: ensureAbsent with exactly one match and allow_duplicates = false
   returns changed = true and no resource; not in dry-run it calls delete
   exactly once, on the match, which is gone afterwards; in dry-run it calls
   no delete. *)
C9_AbsentDeletesTheMatch ==
    (Ran /\ L.p.state = "absent" /\ Valid(L.p) /\ ~L.p.multi
         /\ Cardinality(Matching(L.pre, L.p)) = 1) =>
        LET id == CHOOSE i \in Matching(L.pre, L.p) : TRUE
        IN  /\ L.status = "exit_json" /\ L.changed /\ IsNone(L.vpc)
            /\ IF L.p.check_mode
               THEN Count(L.calls, "delete_vpc") = 0 /\ provider = L.pre
               ELSE /\ Count(L.calls, "delete_vpc") = 1
                    /\ \A i \in 1..Len(L.calls) :
                           L.calls[i].call = "delete_vpc" => L.calls[i].id = id
                    /\ id \notin DOMAIN provider
                    /\ \A i \in DOMAIN L.pre \ {id} :
                           i \in DOMAIN provider /\ provider[i] = L.pre[i]

C9_Witness ==
    /\ AbsentOk /\ ~L.p.multi /\ ~L.p.check_mode
    /\ Cardinality(Matching(L.pre, L.p)) = 1
    /\ Cardinality(DOMAIN L.pre) = 2
    /\ Cardinality(DOMAIN provider) = 1

(* C10: ensureAbsent with no match returns changed = false and no resource,
   issues no delete and leaves the provider state unchanged. *)
C10_AbsentOnMissing ==
    (Ran /\ L.p.state = "absent" /\ Valid(L.p) /\ Matching(L.pre, L.p) = {}) =>
        /\ L.status = "exit_json" /\ ~L.changed /\ IsNone(L.vpc)
        /\ Count(L.calls, "delete_vpc") = 0
        /\ provider = L.pre

C10_Witness ==
    /\ AbsentOk /\ ~L.p.check_mode /\ ~L.p.multi
    /\ Matching(L.pre, L.p) = {}
    /\ DOMAIN L.pre # {}
    /\ ~L.changed

(* C14: associate_dhcp_options(resource, desired id) is called exactly when a
   DHCP options id is desired, differs from the one the resource has, and the
   run is not a dry run; with no id desired the association is left alone, and
   with no id desired or an equal one it adds nothing to changed. *)
C14_DhcpReconciliation ==
    (PresentOk /\ ~IsNone(L.vpc)) =>
        LET id == The(L.vpc).id
            found == id \in DOMAIN L.pre
            hadDhcp == IF found THEN L.pre[id].dhcp_options_id ELSE DefaultDhcp
            hadTags == IF found THEN L.pre[id].tags ELSE <<>>
            differs == L.p.dhcp_id # NoDhcp /\ L.p.dhcp_id # hadDhcp
        IN  /\ Count(L.calls, "associate_dhcp_options")
                 = (IF differs /\ ~L.p.check_mode THEN 1 ELSE 0)
            /\ \A i \in 1..Len(L.calls) :
                   L.calls[i].call = "associate_dhcp_options" =>
                       L.calls[i].id = id /\ L.calls[i].arg[1] = L.p.dhcp_id
            /\ provider[id].dhcp_options_id
                 = (IF differs /\ ~L.p.check_mode THEN L.p.dhcp_id ELSE hadDhcp)
            /\ L.changed <=> (differs \/ ~found \/ hadTags # effectiveTags(L.p))

C14_Witness ==
    /\ PresentOk /\ ~L.p.check_mode /\ ~L.p.multi
    /\ Cardinality(Matching(L.pre, L.p)) = 1
    /\ L.p.dhcp_id = DefaultDhcp
    /\ L.pre[The(L.vpc).id].dhcp_options_id = "dopt-1"
    /\ L.pre[The(L.vpc).id].tags = effectiveTags(L.p)
    /\ Count(L.calls, "associate_dhcp_options") = 1
    /\ L.changed

(* C17: a successful non-dry-run ensurePresent returns changed = true exactly
   when it issued create, associate_dhcp_options or create_tags, and a
   successful non-dry-run ensureAbsent exactly when it issued delete. *)
C17_ChangedIffMutated ==
    /\ (PresentOk /\ ~L.p.check_mode) =>
           (L.changed <=> (Count(L.calls, "create_vpc")
                           + Count(L.calls, "associate_dhcp_options")
                           + Count(L.calls, "create_tags") > 0))
    /\ (AbsentOk /\ ~L.p.check_mode) =>
           (L.changed <=> Count(L.calls, "delete_vpc") > 0)

C17_Witness ==
    /\ PresentOk /\ ~L.p.check_mode
    /\ Count(L.calls, "create_vpc") = 0
    /\ Count(L.calls, "associate_dhcp_options") = 1
    /\ Count(L.calls, "create_tags") = 0
    /\ L.changed

(* C18: ensureAbsent with allow_duplicates = true deletes nothing, whatever
   matches: no delete call, provider state unchanged, changed = false and no
   resource returned. *)
C18_AbsentWithDuplicatesNeverDeletes ==
    (Ran /\ L.p.state = "absent" /\ Valid(L.p) /\ L.p.multi) =>
        /\ L.status = "exit_json" /\ ~L.changed /\ IsNone(L.vpc)
        /\ Count(L.calls, "delete_vpc") = 0
        /\ provider = L.pre

C18_Witness ==
    /\ AbsentOk /\ L.p.multi /\ ~L.p.check_mode
    /\ Cardinality(Matching(L.pre, L.p)) = 1
    /\ provider = L.pre
    /\ ~L.changed

DnsCalls(calls) == SelectSeq(calls, LAMBDA e : e.call = "modify_vpc_attribute")

(* C11: every non-dry-run ensurePresent that completes writes the desired
   dns_support and dns_hostnames to the resource, also when nothing else
   changed, and changed does not depend on whether that write altered the
   provider: a run whose only effect is the DNS write returns changed = false. *)
C11_DnsAlwaysWrittenNeverDiffed ==
    (PresentOk /\ ~L.p.check_mode) =>
        LET id == The(L.vpc).id
            found == id \in DOMAIN L.pre
            hadDhcp == IF found THEN L.pre[id].dhcp_options_id ELSE DefaultDhcp
            hadTags == IF found THEN L.pre[id].tags ELSE <<>>
            dns == DnsCalls(L.calls)
        IN  /\ Len(dns) = 2
            /\ dns[1].id = id /\ dns[1].arg = <<"enable_dns_support", L.p.dns_support>>
            /\ dns[2].id = id /\ dns[2].arg = <<"enable_dns_hostnames", L.p.dns_hostnames>>
            /\ provider[id].dns_support = L.p.dns_support
            /\ provider[id].dns_hostnames = L.p.dns_hostnames
            /\ L.changed <=> \/ ~found
                             \/ L.p.dhcp_id # NoDhcp /\ L.p.dhcp_id # hadDhcp
                             \/ hadTags # effectiveTags(L.p)

C11_Witness ==
    /\ PresentOk /\ ~L.p.check_mode /\ ~L.p.multi
    /\ Cardinality(Matching(L.pre, L.p)) = 1
    /\ L.pre[The(L.vpc).id].dns_support # L.p.dns_support
    /\ provider[The(L.vpc).id].dns_support = L.p.dns_support
    /\ Len(L.calls) = 5
    /\ ~L.changed

(* C15: binding to an existing resource never changes its instance_tenancy or
   cidr_block; a desired tenancy other than the resource's issues no call and
   does not set changed; the desired tenancy is only an argument of create. *)
C15_TenancyCreateOnly ==
    (PresentOk /\ ~IsNone(L.vpc)) =>
        LET id == The(L.vpc).id
            found == id \in DOMAIN L.pre
        IN  /\ found =>
                /\ provider[id].instance_tenancy = L.pre[id].instance_tenancy
                /\ provider[id].cidr_block = L.pre[id].cidr_block
                /\ Count(L.calls, "create_vpc") = 0
                /\ L.changed <=>
                       \/ L.p.dhcp_id # NoDhcp /\ L.p.dhcp_id # L.pre[id].dhcp_options_id
                       \/ L.pre[id].tags # effectiveTags(L.p)
            /\ ~found =>
                /\ provider[id].instance_tenancy = L.p.tenancy
                /\ Count(L.calls, "create_vpc") = 1
            /\ \A i \in 1..Len(L.calls) :
                   L.calls[i].call = "create_vpc" =>
                       L.calls[i].arg = <<L.p.cidr_block, L.p.tenancy>>

C15_Witness ==
    /\ PresentOk /\ ~L.p.check_mode /\ ~L.p.multi
    /\ Cardinality(Matching(L.pre, L.p)) = 1
    /\ L.pre[The(L.vpc).id].instance_tenancy = "dedicated"
    /\ L.p.tenancy = "default"
    /\ provider[The(L.vpc).id].instance_tenancy = "dedicated"
    /\ ~L.changed

Position(calls, call) ==
    {i \in 1..Len(calls) : calls[i].call = call}

Raised == Ran /\ L.p.fail_at \in 1..Len(L.calls)

DnsStepDone ==
    /\ Ran /\ L.p.state = "present"
    /\ Len(DnsCalls(L.calls)) = 2
    /\ \A i \in Position(L.calls, "modify_vpc_attribute") : i # L.p.fail_at

(* C12 as stated: once both DNS attributes are written the invocation cannot
   end in an error. *)
C12_NoFailureAfterDns ==
    DnsStepDone => L.status = "exit_json"

(* C12 amended: once both DNS attributes are written exactly one remote call
   remains, the fetch of the resource by id; the invocation ends in an error
   exactly when that call fails, and returns a result otherwise. *)
C12_OnlyRefetchCanFailAfterDns ==
    DnsStepDone =>
        LET n == Len(L.calls)
        IN  /\ L.calls[n].call = "get_all_vpcs"
            /\ L.calls[n].id = L.calls[n - 1].id
            /\ L.calls[n - 1].call = "modify_vpc_attribute"
            /\ L.status = (IF L.p.fail_at = n THEN "fail_json" ELSE "exit_json")
            /\ L.status = "fail_json" => L.msg = "boto"

C12_Witness ==
    /\ DnsStepDone
    /\ L.p.fail_at = Len(L.calls)
    /\ L.status = "fail_json"
    /\ Count(L.calls, "create_vpc") = 1
    /\ Cardinality(DOMAIN provider) = Cardinality(DOMAIN L.pre) + 1

(* C13: when a remote call fails the invocation ends in an error with that
   call as its last one (no retry, no later step, no compensating call), and
   what the earlier calls of the invocation wrote stays in the provider. *)
C13_FailureTerminalNoRollback ==
    Raised =>
        LET k == L.p.fail_at
            done(call) == {i \in Position(L.calls, call) : i < k}
            ids == {L.calls[i].id : i \in 1..Len(L.calls)} \ {0}
            created == done("create_vpc") # {}
        IN  /\ L.status = "fail_json"
            /\ L.msg = (IF L.p.state = "present" THEN "boto" ELSE "dependency")
                 \/ k = 1
            /\ Len(L.calls) = k
            /\ L.p.state = "present" => Count(L.calls, "delete_vpc") = 0
            /\ done("delete_vpc") = {}
            /\ DOMAIN provider =
                 DOMAIN L.pre \cup (IF created THEN DOMAIN provider \ DOMAIN L.pre ELSE {})
            /\ Cardinality(DOMAIN provider)
                 = Cardinality(DOMAIN L.pre) + (IF created THEN 1 ELSE 0)
            /\ \A i \in DOMAIN L.pre \ ids : provider[i] = L.pre[i]
            /\ \A id \in ids :
                   /\ id \in DOMAIN provider
                   /\ done("associate_dhcp_options") # {} =>
                          provider[id].dhcp_options_id = L.p.dhcp_id
                   /\ done("associate_dhcp_options") = {} =>
                          provider[id].dhcp_options_id =
                              (IF created THEN DefaultDhcp ELSE L.pre[id].dhcp_options_id)
                   /\ done("create_tags") # {} =>
                          Contains(provider[id].tags, effectiveTags(L.p))
                   /\ done("create_tags") = {} =>
                          provider[id].tags = (IF created THEN <<>> ELSE L.pre[id].tags)
                   /\ done("modify_vpc_attribute") # {} =>
                          provider[id].dns_support = L.p.dns_support

C13_Witness ==
    /\ Raised /\ L.p.state = "present"
    /\ L.status = "fail_json"
    /\ Count(L.calls, "create_vpc") = 1
    /\ Count(L.calls, "associate_dhcp_options") = 1
    /\ L.calls[L.p.fail_at].call = "create_tags"
    /\ \E id \in DOMAIN provider \ DOMAIN L.pre :
           /\ provider[id].dhcp_options_id = L.p.dhcp_id
           /\ provider[id].tags = <<>>

(* C16: over any sequence of non-dry-run runs of one desired state without
   allow_duplicates, failed runs included, from a provider that holds no
   resource, the provider holds at most one resource created by these runs. *)
C16_NoDuplicateCreation ==
    Cardinality(DOMAIN provider) <= 1

====
